---------------------------- MODULE Spec2Model ----------------------------
(***************************************************************************)
(* First-level analysis workflow of fmriflows                              *)
(* (notebooks/03_analysis_1st-level.ipynb).                                *)
(*                                                                         *)
(* The notebook reads a specification, resolves the contrast list,         *)
(* declares the processing nodes, wires them into the workflow             *)
(* analysis_1st (one core connect call and three conditional ones), and    *)
(* runs the workflow on a pool of n_proc workers.  The module models       *)
(*   - the assembly of the workflow, cell by cell,                         *)
(*   - the expansion of the iterable axes into execution instances,        *)
(*   - the scheduling loop of the run,                                     *)
(* and, in later sections, the pure functions of the notebook.             *)
(***************************************************************************)
EXTENDS Integers, Sequences, FiniteSets, TLC

VARIABLES
    subject_list,      \* specs['subject_list']
    filters_temporal,  \* specs['filters_temporal']
    filters_spatial,   \* specs['filters_spatial']
    use_outliers,      \* specs['use_outliers']
    normlaize,         \* specs['normalize'] (the notebook's spelling)
    con_per_run,       \* specs['con_per_run']
    n_proc,            \* specs['n_parallel_jobs']
    pc,                \* the notebook cell (or engine phase) to execute next
    workflow,          \* analysis_1st: the set of edges connected so far
    exec_nodes,        \* the execution instances of the expanded workflow
    deps,              \* the producers of every execution instance
    status,            \* ExecutionRecord status of every instance
    con_specs,         \* specs['contrasts']
    condition_names,   \* specs['condition_names']
    contrast_list,     \* the resolved contrast list
    stimuli_order,     \* getsubjectinfo's stimuli_order of one subject
    run_contrasts,     \* contrast_per_run's output run_contrasts
    condition_labels,  \* contrast_per_run's output condition_labels
    labels_file,       \* the rows of labels.csv
    postfix,           \* specs['analysis_postfix']
    substitutions,     \* datasink.inputs.substitutions
    persisted,         \* the files the datasink has written, with their source
    confounds,         \* nuisance_reg: the column headers of every confound file
    nuisance_regressors, \* specs['nuisance_regressors']
    regressor_files,   \* nuisance_reg: the columns of every file it wrote
    high_pass_filter_cutoff, \* modelspec.inputs.high_pass_filter_cutoff
    event_files,       \* sub-*_run-*_events.tsv of one subject and task, by run
    nss_files,         \* sub-*_run-*_nss.txt of the same subject and task, by run
    subject_info,      \* getsubjectinfo's output subject_info
    iterfield,         \* a MapNode instance: the input slots it iterates over
    map_inputs,        \* a MapNode instance: the sequence bound to every iterfield
    map_outputs,       \* a MapNode instance: the element outputs collected so far
    preproc_files,     \* the preprocessed files of one subject, task and filter pair
    selected_files,    \* selectfiles' outputs transforms, func, outliers, confounds
    modelspec_inputs   \* the run-wise inputs modelspec receives over its edges

config == <<subject_list, filters_temporal, filters_spatial, use_outliers,
            normlaize, con_per_run, n_proc>>

\* The inputs and results of the notebook's functions.
contrast_vars == <<con_specs, condition_names, contrast_list>>
per_run_vars == <<stimuli_order, run_contrasts, condition_labels, labels_file>>
sink_vars == <<postfix, substitutions, persisted>>
nuisance_vars == <<confounds, nuisance_regressors, regressor_files>>
info_vars == <<event_files, nss_files, subject_info>>
map_vars == <<iterfield, map_inputs, map_outputs>>
file_vars == <<preproc_files, selected_files, modelspec_inputs>>
node_vars == <<nuisance_vars, high_pass_filter_cutoff, info_vars, map_vars, file_vars>>
data == <<contrast_vars, per_run_vars, sink_vars, node_vars>>

vars == <<config, pc, workflow, exec_nodes, deps, status, data>>

(***************************************************************************)
(* Bounds of the model.                                                    *)
(***************************************************************************)
MaxAxis == 2        \* longest iterable axis of the expansion model
MaxBranches == 2    \* most branches of a scheduled run
MaxProcs == 2       \* largest n_parallel_jobs of a scheduled run
MaxFailures == 1    \* most node failures of a scheduled run
MaxContrasts == 2   \* most declared contrasts
MaxRuns == 2        \* most runs (event tables) of a subject
MaxEvents == 2      \* most events of a run
MaxColumns == 2     \* most columns of a confound table
MaxSelectors == 2   \* most nuisance selectors
MaxFileRuns == 2    \* most runs with files on disk
MaxElements == 4    \* longest sequence bound to an iterfield
MaxSinkBranches == 4  \* most branches of a persisted run

(***************************************************************************)
(* Values the specification file may hold.                                 *)
(***************************************************************************)
AllSubjects == <<"01", "02", "03", "04", "05">>

\* A value of the specification file is written as its JSON literal: an
\* integer, a float (integer and fractional digits) or a string.
Num(n) == <<"int", ToString(n), "">>
Flt(n, frac) == <<"float", ToString(n), ToString(frac)>>
Txt(s) == <<"str", s, "">>

AllTemporal ==
    << <<Flt(5, 0), Flt(100, 0)>>, <<Flt(5, 0), Flt(50, 0)>>,
       <<Flt(2, 0), Flt(80, 0)>>, <<Flt(1, 0), Flt(60, 0)>> >>
AllSpatial ==
    << <<Txt("LP"), Num(6)>>, <<Txt("LP"), Num(3)>>,
       <<Txt("HP"), Num(4)>>, <<Txt("BP"), Num(2)>> >>

Prefix(s, n) == SubSeq(s, 1, n)

output_folder == "analysis_1stLevel"

(***************************************************************************)
(* The connect calls.  An edge is <<producer, out slot, consumer, in slot>>;*)
(* an in slot is its dotted name split at the dots, so that the datasink   *)
(* slot 'analysis_1stLevel.univariate.@con' keeps its destination.         *)
(***************************************************************************)
Sink(dest, slot) == <<output_folder, dest, slot>>

\* Mutant: the core connect call with level1design wired to selectfiles
\* instead of modelspec.
CoreEdgesMiswired ==
    { <<"infosource", "subject_id", "selectfiles", <<"sub_id">>>>,
      <<"infosource", "subject_id", "getsubjectinfo", <<"subject_id">>>>,
      <<"getsubjectinfo", "subject_info", "modelspec", <<"subject_info">>>>,
      <<"selectfiles", "func", "gunzip", <<"in_file">>>>,
      <<"gunzip", "out_file", "modelspec", <<"functional_runs">>>>,
      <<"selectfiles", "func", "level1design", <<"session_info">>>>,
      <<"level1design", "spm_mat_file", "level1estimate", <<"spm_mat_file">>>>,
      <<"level1estimate", "spm_mat_file", "level1conest", <<"spm_mat_file">>>>,
      <<"level1estimate", "beta_images", "level1conest", <<"beta_images">>>>,
      <<"level1estimate", "residual_image", "level1conest", <<"residual_image">>>>,
      <<"selectfiles", "confounds", "nuisance_reg", <<"confounds">>>>,
      <<"nuisance_reg", "confounds", "modelspec", <<"realignment_parameters">>>>,
      <<"level1conest", "spm_mat_file", "datasink", Sink("univariate", "@spm_mat")>>,
      <<"level1conest", "con_images", "datasink", Sink("univariate", "@con")>>,
      <<"level1conest", "ess_images", "datasink", Sink("univariate", "@ess")>>,
      <<"level1conest", "spmT_images", "datasink", Sink("univariate", "@spmT")>>,
      <<"level1conest", "spmF_images", "datasink", Sink("univariate", "@spmF")>>,
      <<"level1conest", "spm_mat_file", "plot_GLM", <<"SPM">>>>,
      <<"plot_GLM", "out_file", "datasink", Sink("univariate", "@spm_mat_svg")>> }

CoreEdges ==
    { <<"infosource", "subject_id", "selectfiles", <<"sub_id">>>>,
      <<"infosource", "subject_id", "getsubjectinfo", <<"subject_id">>>>,
      <<"getsubjectinfo", "subject_info", "modelspec", <<"subject_info">>>>,
      <<"selectfiles", "func", "gunzip", <<"in_file">>>>,
      <<"gunzip", "out_file", "modelspec", <<"functional_runs">>>>,
      <<"modelspec", "session_info", "level1design", <<"session_info">>>>,
      <<"level1design", "spm_mat_file", "level1estimate", <<"spm_mat_file">>>>,
      <<"level1estimate", "spm_mat_file", "level1conest", <<"spm_mat_file">>>>,
      <<"level1estimate", "beta_images", "level1conest", <<"beta_images">>>>,
      <<"level1estimate", "residual_image", "level1conest", <<"residual_image">>>>,
      <<"selectfiles", "confounds", "nuisance_reg", <<"confounds">>>>,
      <<"nuisance_reg", "confounds", "modelspec", <<"realignment_parameters">>>>,
      <<"level1conest", "spm_mat_file", "datasink", Sink("univariate", "@spm_mat")>>,
      <<"level1conest", "con_images", "datasink", Sink("univariate", "@con")>>,
      <<"level1conest", "ess_images", "datasink", Sink("univariate", "@ess")>>,
      <<"level1conest", "spmT_images", "datasink", Sink("univariate", "@spmT")>>,
      <<"level1conest", "spmF_images", "datasink", Sink("univariate", "@spmF")>>,
      <<"level1conest", "spm_mat_file", "plot_GLM", <<"SPM">>>>,
      <<"plot_GLM", "out_file", "datasink", Sink("univariate", "@spm_mat_svg")>> }

\* Mutant: the outlier files wired to the slot the nuisance regressors feed.
OutlierEdgesDoubleBound ==
    { <<"selectfiles", "outliers", "modelspec", <<"realignment_parameters">>>> }

OutlierEdges ==
    { <<"selectfiles", "outliers", "modelspec", <<"outlier_files">>>> }

\* Mutant: the merged contrasts wired back into the model estimation.
NormalizeEdgesCyclic ==
    { <<"level1conest", "con_images", "merge", <<"in1">>>>,
      <<"merge", "out", "level1estimate", <<"spm_mat_file">>>> }

NormalizeEdges ==
    { <<"level1conest", "con_images", "merge", <<"in1">>>>,
      <<"level1conest", "ess_images", "merge", <<"in2">>>>,
      <<"merge", "out", "normfunc", <<"input_image">>>>,
      <<"selectfiles", "transforms", "normfunc", <<"transforms">>>>,
      <<"normfunc", "output_image", "gzip", <<"contrast">>>>,
      <<"gzip", "out_file", "plot_contrasts", <<"contrast">>>>,
      <<"gzip", "out_file", "datasink", Sink("univariate", "@norm_files")>>,
      <<"plot_contrasts", "out_file", "datasink", Sink("univariate", "@norm_plot")>> }

PerRunEdges ==
    { <<"getsubjectinfo", "stimuli_order", "contrast_per_run", <<"stimuli_order">>>>,
      <<"contrast_per_run", "run_contrasts", "level1conest_run", <<"contrasts">>>>,
      <<"level1estimate", "spm_mat_file", "level1conest_run", <<"spm_mat_file">>>>,
      <<"level1estimate", "beta_images", "level1conest_run", <<"beta_images">>>>,
      <<"level1estimate", "residual_image", "level1conest_run", <<"residual_image">>>>,
      <<"level1conest_run", "con_images", "normfunc_run", <<"input_image">>>>,
      <<"selectfiles", "transforms", "normfunc_run", <<"transforms">>>>,
      <<"normfunc_run", "output_image", "gzip_run", <<"contrast">>>>,
      <<"gzip_run", "out_file", "datasink", Sink("multivariate", "@norm_files")>>,
      <<"level1estimate", "spm_mat_file", "write_labels", <<"spm_mat_file">>>>,
      <<"contrast_per_run", "condition_labels", "write_labels", <<"condition_labels">>>>,
      <<"write_labels", "labels_file", "datasink", Sink("multivariate", "@norm_labels")>> }

\* Nodes wrapping the transform-application interface (ApplyTransforms):
\* normfunc and its clone normfunc_run.
TransformNodes == {"normfunc", "normfunc_run"}

\* The nodes declared in the notebook, in declaration order.
NodeOrder ==
    <<"getsubjectinfo", "gunzip", "modelspec", "level1design", "level1estimate",
      "level1conest", "merge", "normfunc", "gzip", "nuisance_reg", "plot_GLM",
      "plot_contrasts", "contrast_per_run", "infosource", "selectfiles",
      "datasink", "level1conest_run", "normfunc_run", "gzip_run", "write_labels">>

NodeIndex(n) == CHOOSE i \in 1..Len(NodeOrder) : NodeOrder[i] = n

(***************************************************************************)
(* The slots the nodes declare.  A Function node declares its input_names  *)
(* and output_names, an IdentityInterface its fields; the other nodes      *)
(* declare the slots of the interface they wrap.  The datasink takes any   *)
(* destination as an input slot.                                           *)
(***************************************************************************)
\* The interface a node wraps; a clone wraps the interface of its original.
Interface ==
    [n \in {NodeOrder[i] : i \in DOMAIN NodeOrder} |->
        CASE n = "gunzip" -> "Gunzip"
          [] n = "modelspec" -> "SpecifySPMModel"
          [] n = "level1design" -> "Level1Design"
          [] n = "level1estimate" -> "EstimateModel"
          [] n \in {"level1conest", "level1conest_run"} -> "EstimateContrast"
          [] n = "merge" -> "Merge"
          [] n \in TransformNodes -> "ApplyTransforms"
          [] n = "infosource" -> "IdentityInterface"
          [] n = "datasink" -> "DataSink"
          [] OTHER -> "Function"]

\* input_names / fields of the Function and IdentityInterface nodes.
FunctionInputs(n) ==
    CASE n = "getsubjectinfo" -> {"subject_id", "task_id"}
      [] n \in {"gzip", "gzip_run"} -> {"contrast"}
      [] n = "nuisance_reg" -> {"confounds", "nuisance_regressors"}
      [] n = "plot_GLM" -> {"SPM"}
      [] n = "plot_contrasts" -> {"contrast", "template", "contrast_names"}
      [] n = "contrast_per_run" -> {"stimuli_order", "condition_names"}
      [] n = "infosource" -> {"subject_id"}
      [] n = "selectfiles" -> {"sub_id", "task_id", "tFilter", "sFilter"}
      [] n = "write_labels" -> {"condition_labels", "spm_mat_file"}
      [] OTHER -> {}

\* output_names / fields of the Function and IdentityInterface nodes.
FunctionOutputs(n) ==
    CASE n = "getsubjectinfo" -> {"subject_info", "stimuli_order"}
      [] n \in {"gzip", "gzip_run"} -> {"out_file"}
      [] n = "nuisance_reg" -> {"confounds"}
      [] n = "plot_GLM" -> {"out_file"}
      [] n = "plot_contrasts" -> {"out_file"}
      [] n = "contrast_per_run" -> {"run_contrasts", "condition_labels"}
      [] n = "infosource" -> {"subject_id"}
      [] n = "selectfiles" -> {"transforms", "func", "outliers", "confounds"}
      [] n = "write_labels" -> {"labels_file"}
      [] OTHER -> {}

\* The input slots of the wrapped interfaces.
InterfaceInputs(f) ==
    CASE f = "Gunzip" -> {"in_file"}
      [] f = "SpecifySPMModel" ->
            {"subject_info", "functional_runs", "realignment_parameters",
             "outlier_files", "concatenate_runs", "input_units", "output_units",
             "time_repetition", "high_pass_filter_cutoff"}
      [] f = "Level1Design" ->
            {"session_info", "bases", "timing_units", "interscan_interval",
             "model_serial_correlations", "mask_image"}
      [] f = "EstimateModel" -> {"spm_mat_file", "estimation_method"}
      [] f = "EstimateContrast" ->
            {"spm_mat_file", "beta_images", "residual_image", "contrasts"}
      [] f = "Merge" -> {"in1", "in2", "ravel_inputs"}
      [] f = "ApplyTransforms" ->
            {"input_image", "transforms", "reference_image", "input_image_type",
             "float", "interpolation", "invert_transform_flags", "out_postfix"}
      [] OTHER -> {}

\* The output slots of the wrapped interfaces.
InterfaceOutputs(f) ==
    CASE f = "Gunzip" -> {"out_file"}
      [] f = "SpecifySPMModel" -> {"session_info"}
      [] f = "Level1Design" -> {"spm_mat_file"}
      [] f = "EstimateModel" ->
            {"spm_mat_file", "beta_images", "residual_image", "mask_image"}
      [] f = "EstimateContrast" ->
            {"spm_mat_file", "con_images", "spmT_images", "ess_images", "spmF_images"}
      [] f = "Merge" -> {"out"}
      [] f = "ApplyTransforms" -> {"output_image"}
      [] f = "DataSink" -> {"out_file"}
      [] OTHER -> {}

InputSlots(n) == FunctionInputs(n) \cup InterfaceInputs(Interface[n])

OutputSlots(n) == FunctionOutputs(n) \cup InterfaceOutputs(Interface[n])

\* The input slots set to a value where the node is declared (a clone keeps
\* the settings of its original).
LiteralInputs ==
    { <<"getsubjectinfo", <<"task_id">>>>,
      <<"modelspec", <<"concatenate_runs">>>>, <<"modelspec", <<"input_units">>>>,
      <<"modelspec", <<"output_units">>>>, <<"modelspec", <<"time_repetition">>>>,
      <<"modelspec", <<"high_pass_filter_cutoff">>>>,
      <<"level1design", <<"bases">>>>, <<"level1design", <<"timing_units">>>>,
      <<"level1design", <<"interscan_interval">>>>,
      <<"level1design", <<"model_serial_correlations">>>>,
      <<"level1estimate", <<"estimation_method">>>>,
      <<"level1conest", <<"contrasts">>>>,
      <<"merge", <<"ravel_inputs">>>>,
      <<"nuisance_reg", <<"nuisance_regressors">>>>,
      <<"plot_contrasts", <<"template">>>>, <<"plot_contrasts", <<"contrast_names">>>>,
      <<"contrast_per_run", <<"condition_names">>>>,
      <<"selectfiles", <<"task_id">>>>,
      <<"datasink", <<"base_directory">>>>, <<"datasink", <<"container">>>>,
      <<"datasink", <<"substitutions">>>> }
    \cup { <<n, <<slot>>>> : n \in TransformNodes,
             slot \in {"reference_image", "input_image_type", "float",
                       "interpolation", "invert_transform_flags", "out_postfix"} }

\* The input slots bound by an iterable axis.
IterableInputs ==
    { <<"infosource", <<"subject_id">>>>,
      <<"selectfiles", <<"tFilter">>>>, <<"selectfiles", <<"sFilter">>>> }

(***************************************************************************)
(* Graph helpers.                                                          *)
(***************************************************************************)
NodesOf(E) == {e[1] : e \in E} \cup {e[3] : e \in E}

Preds(E, n) == {e[1] : e \in {x \in E : x[3] = n}}

Succs(E, n) == {e[3] : e \in {x \in E : x[1] = n}}

RECURSIVE Reach(_, _)
Reach(E, S) ==
    LET T == S \cup UNION {Succs(E, n) : n \in S}
    IN  IF T = S THEN S ELSE Reach(E, T)

\* Proper topological descendants of node n.
Descendants(E, n) == Reach(E, Succs(E, n))


(***************************************************************************)
(* Assembly of the workflow: the notebook's connect cells, in cell order.  *)
(* A cell whose flag is false is executed and connects nothing.            *)
(***************************************************************************)
\* modelspec = Node(SpecifySPMModel(..., high_pass_filter_cutoff=filters_temporal[0][1]))
\* The cell indexes the first temporal filter when it is executed.
Modelspec ==
    /\ pc = "modelspec"
    /\ IF Len(filters_temporal) = 0
       THEN pc' = "IndexError" /\ UNCHANGED high_pass_filter_cutoff
       ELSE /\ high_pass_filter_cutoff' = filters_temporal[1][2]
            /\ pc' = "connect"
    /\ UNCHANGED <<config, workflow, exec_nodes, deps, status, contrast_vars,
                   per_run_vars, sink_vars, nuisance_vars, info_vars, map_vars, file_vars>>

ConnectCore ==
    /\ pc = "connect"
    /\ workflow' = workflow \cup CoreEdges
    /\ pc' = "outliers"
    /\ UNCHANGED <<config, data, exec_nodes, deps, status>>

ConnectOutliers ==
    /\ pc = "outliers"
    /\ workflow' = IF use_outliers THEN workflow \cup OutlierEdges ELSE workflow
    /\ pc' = "normalize"
    /\ UNCHANGED <<config, data, exec_nodes, deps, status>>

ConnectNormalize ==
    /\ pc = "normalize"
    /\ workflow' = IF normlaize THEN workflow \cup NormalizeEdges ELSE workflow
    /\ pc' = "per_run"
    /\ UNCHANGED <<config, data, exec_nodes, deps, status>>

\* Mutant: the per-run cell connecting its edges whatever con_per_run is.
ConnectPerRunUnguarded ==
    /\ pc = "per_run"
    /\ workflow' = workflow \cup PerRunEdges
    /\ pc' = "run"
    /\ UNCHANGED <<config, data, exec_nodes, deps, status>>

ConnectPerRun ==
    /\ pc = "per_run"
    /\ workflow' = IF con_per_run THEN workflow \cup PerRunEdges ELSE workflow
    /\ pc' = "run"
    /\ UNCHANGED <<config, data, exec_nodes, deps, status>>

(***************************************************************************)
(* Iterable axes.  infosource iterates over the subjects; selectfiles      *)
(* iterates over the cross product of its two axes (the axes of one node   *)
(* are not synchronized).  An axis value is named by its position.         *)
(***************************************************************************)
SubjectAxis == 1..Len(subject_list)

\* Mutant: the two axes of selectfiles walked in lockstep (synchronized).
FilterAxesSynchronized ==
    { <<t, t>> : t \in (1..Len(filters_temporal)) \cap (1..Len(filters_spatial)) }

FilterAxes == (1..Len(filters_temporal)) \X (1..Len(filters_spatial))

\* An execution instance is <<node, subject, tFilter, sFilter>>; an axis the
\* node is not expanded over is 0.
ExpandSubjects(E) ==
    LET sub == {"infosource"} \cup Descendants(E, "infosource")
    IN  { <<n, s, 0, 0>> : n \in NodesOf(E) \cap sub, s \in SubjectAxis }
        \cup { <<n, 0, 0, 0>> : n \in NodesOf(E) \ sub }

ExpandFilters(E, X) ==
    LET sub == {"selectfiles"} \cup Descendants(E, "selectfiles")
    IN  { <<i[1], i[2], a[1], a[2]>> : i \in {x \in X : x[1] \in sub}, a \in FilterAxes }
        \cup { x \in X : x[1] \notin sub }

\* An iterable axis of infosource or selectfiles is an empty sequence.
EmptyAxis ==
    Len(subject_list) = 0 \/ Len(filters_temporal) = 0 \/ Len(filters_spatial) = 0

\* The expansion refuses an empty axis.
RunEmptyAxis ==
    /\ pc = "run"
    /\ EmptyAxis
    /\ pc' = "ConfigError"
    /\ UNCHANGED <<config, data, workflow, exec_nodes, deps, status>>

Run ==
    /\ pc = "run"
    /\ ~EmptyAxis
    /\ exec_nodes' = ExpandSubjects(workflow)
    /\ pc' = "expand"
    /\ UNCHANGED <<config, data, workflow, deps, status>>

\* The branches of the expanded workflow: the parameter tuples of the
\* instances of the output router.
Branches == { <<i[2], i[3], i[4]>> : i \in {x \in exec_nodes : x[1] = "datasink"} }

\* Instance i belongs to branch b when it carries b's values on every axis
\* it is expanded over.
InBranch(i, b) ==
    \A p \in 1..3 : i[p + 1] = 0 \/ i[p + 1] = b[p]

\* Instance i feeds instance j: their nodes are connected and j carries i's
\* value on every axis i is expanded over.
InstEdge(E, i, j) ==
    /\ \E e \in E : e[1] = i[1] /\ e[3] = j[1]
    /\ \A p \in 2..4 : i[p] = 0 \/ i[p] = j[p]

\* The dependency table of the expanded workflow: the producers of every
\* instance.
DepTable(E, X) == [j \in X |-> { i \in X : InstEdge(E, i, j) }]

Expand ==
    /\ pc = "expand"
    /\ exec_nodes' = ExpandFilters(workflow, exec_nodes)
    /\ deps' = DepTable(workflow, exec_nodes')
    /\ status' = [i \in exec_nodes' |-> "pending"]
    /\ pc' = "schedule"
    /\ UNCHANGED <<config, data, workflow>>

\* The instances of S and everything downstream of them.
Downstream(S) ==
    LET from[R \in SUBSET exec_nodes] ==
            LET T == R \cup { j \in exec_nodes : deps[j] \cap R # {} }
            IN  IF T = R THEN R ELSE from[T]
    IN  from[S]

\* Proper topological descendants of instance i in the expanded workflow.
InstDescendants(i) == Downstream({i}) \ {i}

(***************************************************************************)
(* The scheduling loop of the run.                                         *)
(***************************************************************************)
WithStatus(st, s) == { i \in exec_nodes : st[i] = s }

\* Mutant: one worker more than the configured budget.
WorkersOffByOne == n_proc + 1

\* Mutant: one worker fewer than the configured budget.
WorkersOneLess == n_proc - 1

\* The worker budget handed to the plugin: plugin_args={'n_procs': n_proc}.
Workers == n_proc

\* Ready: pending with every producer completed.
Ready(st) ==
    { i \in exec_nodes : st[i] = "pending" /\ \A p \in deps[i] : st[p] = "completed" }

\* Position of an instance in the job list.
JobKey(i) == ((i[2] * 10 + i[3]) * 10 + i[4]) * 100 + NodeIndex(i[1])

NextReady(st) ==
    CHOOSE i \in Ready(st) : \A j \in Ready(st) : JobKey(i) <= JobKey(j)

\* One pass over the ready queue: ready instances are handed to free
\* workers, in job order, until the queue or the budget is exhausted.
StatusValues == {"pending", "running", "completed", "failed", "skipped"}

\* Ready instances are handed to free workers, one after another.
Submit(st) ==
    LET from[s \in [exec_nodes -> StatusValues]] ==
            IF Ready(s) # {} /\ Cardinality(WithStatus(s, "running")) < Workers
            THEN from[[s EXCEPT ![NextReady(s)] = "running"]]
            ELSE s
    IN  from[st]

Schedule ==
    /\ pc = "schedule"
    /\ status' = Submit(status)
    /\ pc' = "loop"
    /\ UNCHANGED <<config, data, workflow, exec_nodes, deps>>

\* A worker reports the completion of instance i.
Complete(i) ==
    /\ pc = "loop"
    /\ status[i] = "running"
    /\ status' = Submit([status EXCEPT ![i] = "completed"])
    /\ UNCHANGED <<config, data, pc, workflow, exec_nodes, deps>>

\* Mutant: only the direct consumers of the failed instance are skipped.
SkipConsumersOnly(i) ==
    [j \in exec_nodes |->
        IF j = i THEN "failed" ELSE IF i \in deps[j] THEN "skipped" ELSE status[j]]

\* The status after instance i failed: its descendants are skipped.
SkipDescendants(i) ==
    LET D == InstDescendants(i)
    IN  [j \in exec_nodes |->
            IF j = i THEN "failed" ELSE IF j \in D THEN "skipped" ELSE status[j]]

\* A worker reports the failure of instance i.
Fail(i) ==
    /\ pc = "loop"
    /\ status[i] = "running"
    /\ Cardinality(WithStatus(status, "failed")) < MaxFailures
    /\ status' = Submit(SkipDescendants(i))
    /\ UNCHANGED <<config, data, pc, workflow, exec_nodes, deps>>

Terminal == {"completed", "failed", "skipped"}

Return ==
    /\ pc = "loop"
    /\ \A i \in exec_nodes : status[i] \in Terminal
    /\ pc' = "done"
    /\ UNCHANGED <<config, data, workflow, exec_nodes, deps, status>>

(***************************************************************************)
(* Contrast resolution: the cell that aggregates the declared contrasts.   *)
(* A declared contrast is a record [name, type, weights]; a resolved entry *)
(* is the list the notebook builds.  A formatted number is the sequence of *)
(* its decimal digits.                                                     *)
(***************************************************************************)
RECURSIVE Digits(_)
Digits(n) == IF n < 10 THEN <<n>> ELSE Digits(n \div 10) \o <<n % 10>>

\* '%0<w>d' % n: the digits of n, left-padded with zeros to width w.
ZeroPad(n, w) ==
    LET d == Digits(n)
    IN  IF Len(d) >= w THEN d ELSE [i \in 1..(w - Len(d)) |-> 0] \o d

\* 'T_con_%04d' % i
TConName(i) == <<"T_con_", ZeroPad(i, 4)>>

\* Mutant: the embedded T-contrasts numbered from 1.
EmbeddedTFromOne(weights) ==
    [i \in 1..Len(weights) |-> <<TConName(i), "T", condition_names, weights[i]>>]

\* [['T_con_%04d' % i, 'T', condition_names, f] for i, f in enumerate(weights)]
EmbeddedT(weights) ==
    [i \in 1..Len(weights) |-> <<TConName(i - 1), "T", condition_names, weights[i]>>]

OfType(specs, type) == SelectSeq(specs, LAMBDA c : c.type = type)

FContrasts(specs) ==
    LET fs == OfType(specs, "F")
    IN  [i \in 1..Len(fs) |-> <<fs[i].name, fs[i].type, EmbeddedT(fs[i].weights)>>]

TContrasts(specs) ==
    LET ts == OfType(specs, "T")
    IN  [i \in 1..Len(ts) |-> <<ts[i].name, ts[i].type, condition_names, ts[i].weights>>]

\* contrast_list = [... for c in con_specs if c['type'] == 'F']
AggregateF ==
    /\ pc = "contrasts_F"
    /\ contrast_list' = FContrasts(con_specs)
    /\ pc' = "contrasts_T"
    /\ UNCHANGED <<config, node_vars, workflow, exec_nodes, deps, status, con_specs,
                   condition_names, per_run_vars, sink_vars>>

\* Mutant: the T contrasts put in front of the F contrasts.
AggregateTInFront ==
    /\ pc = "contrasts_T"
    /\ contrast_list' = TContrasts(con_specs) \o contrast_list
    /\ pc' = "contrasts_done"
    /\ UNCHANGED <<config, node_vars, workflow, exec_nodes, deps, status, con_specs,
                   condition_names, per_run_vars, sink_vars>>

\* contrast_list += [... for c in con_specs if c['type'] == 'T']
AggregateT ==
    /\ pc = "contrasts_T"
    /\ contrast_list' = contrast_list \o TContrasts(con_specs)
    /\ pc' = "contrasts_done"
    /\ UNCHANGED <<config, node_vars, workflow, exec_nodes, deps, status, con_specs,
                   condition_names, per_run_vars, sink_vars>>

\* plot_norm_contrasts.inputs.contrast_names = [c[0] for c in contrast_list]
contrast_names == [k \in DOMAIN contrast_list |-> contrast_list[k][1]]

(***************************************************************************)
(* get_contrast_per_run and write_labels_file.                             *)
(***************************************************************************)
\* event_list: for run i (numbered from 0) the list of (i, stimulus) pairs.
EventList(order) ==
    [r \in 1..Len(order) |-> [e \in 1..Len(order[r]) |-> <<r - 1, order[r][e]>>]]

Rectangular(ev) == \A r1, r2 \in 1..Len(ev) : Len(ev[r1]) = Len(ev[r2])

RECURSIVE Flatten(_)
Flatten(ev) == IF ev = <<>> THEN <<>> ELSE Head(ev) \o Flatten(Tail(ev))

\* np.reshape(event_list, (-1, 2)).  A rectangular event_list is an array of
\* shape (runs, events, 2) and is reshaped to one (run, stimulus) row per
\* event.  A ragged one (runs of different lengths) raises ValueError on a
\* recent numpy; an older numpy makes it a one-dimensional array of lists,
\* whose reshape pairs the lists up and raises ValueError when their
\* number is odd.
Reshape(ev) ==
    IF Rectangular(ev)
    THEN { [error |-> FALSE, column0 |-> { row[1] : row \in
                                            {Flatten(ev)[k] : k \in 1..Len(Flatten(ev))} }] }
    ELSE { [error |-> TRUE, column0 |-> {}] }
         \cup IF Len(ev) % 2 = 0
              THEN { [error |-> FALSE,
                      column0 |-> { <<"list", ev[2 * k - 1]>> : k \in 1..(Len(ev) \div 2) }] }
              ELSE {}

UnitVector(n, k) == [i \in 1..n |-> IF i = k + 1 THEN 1 ELSE 0]

\* The two nested loops of get_contrast_per_run; n_conditions is the number
\* of distinct values of column 0 (the notebook's len(n_runs)).
ContrastListRun(names, n_conditions) ==
    LET n_contrasts == Len(names)
    IN  [k \in 1..(n_conditions * n_contrasts) |->
            LET j == (k - 1) \div n_contrasts
                i == (k - 1) % n_contrasts
            IN  << <<"cont_", ZeroPad(1 + i + j * n_conditions, 5)>>, "T", names,
                   UnitVector(n_contrasts, i), UnitVector(n_conditions, j) >>]

ConditionLabels(names, n_conditions) ==
    [k \in 1..(n_conditions * Len(names)) |-> names[((k - 1) % Len(names)) + 1]]

GetContrastPerRun ==
    /\ pc = "contrast_per_run"
    /\ \E a \in Reshape(EventList(stimuli_order)) :
          IF a.error
          THEN /\ pc' = "ValueError"
               /\ UNCHANGED <<run_contrasts, condition_labels>>
          ELSE /\ run_contrasts' = ContrastListRun(condition_names, Cardinality(a.column0))
               /\ condition_labels' = ConditionLabels(condition_names, Cardinality(a.column0))
               /\ pc' = "write_labels"
    /\ UNCHANGED <<config, node_vars, workflow, exec_nodes, deps, status, contrast_vars,
                   stimuli_order, labels_file, sink_vars>>

\* np.savetxt(label_file, condition_labels, fmt='%s'): one row per label.
WriteLabelsFile ==
    /\ pc = "write_labels"
    /\ labels_file' = condition_labels
    /\ pc' = "labels_written"
    /\ UNCHANGED <<config, node_vars, workflow, exec_nodes, deps, status, contrast_vars,
                   stimuli_order, run_contrasts, condition_labels, sink_vars>>

(***************************************************************************)
(* The datasink: substitution table and persisted paths.  A path or a      *)
(* pattern is a sequence of tokens: the separators "/", "_" and "." and    *)
(* the words and numbers between them.                                     *)
(***************************************************************************)
\* str(x) of a specification value.
Str(x) == IF x[1] = "float" THEN <<x[2], ".", x[3]>> ELSE <<x[2]>>

RECURSIVE Join(_, _)
Join(parts, sep) ==
    IF Len(parts) = 0 THEN <<>>
    ELSE IF Len(parts) = 1 THEN parts[1]
    ELSE parts[1] \o sep \o Join(Tail(parts), sep)

\* '.'.join([str(t) for t in tFilter])
FilterId(f) == Join([i \in DOMAIN f |-> Str(f[i])], <<".">>)

\* ('_subject_id_%s/_' % sub, '%s/sub-%s/sub-%s_' % (postfix, sub, sub))
SubjectRule(sub) ==
    << <<"_", "subject", "_", "id", "_", sub, "/", "_">>,
       postfix \o <<"/", "sub-", sub, "/", "sub-", sub, "_">> >>

BranchName(sub, s, t) ==
    <<"sub-", sub, "_", "sFilter", "_">> \o s \o <<"_", "tFilter", "_">> \o t

\* Mutant: the branch rule rewriting to the subject prefix alone.
BranchRuleNoFilters(sub, s, t) ==
    << BranchName(sub, s, t) \o <<"/">>, <<"sub-", sub, "_">> >>

\* ('sub-%s_sFilter_%s_tFilter_%s/' % (sub, s, t),
\*  'sub-%s_sFilter_%s_tFilter_%s_' % (sub, s, t))
BranchRule(sub, s, t) ==
    << BranchName(sub, s, t) \o <<"/">>, BranchName(sub, s, t) \o <<"_">> >>

\* The comprehension over sub, t and s, in that nesting order.
BranchRules ==
    LET nt == Len(filters_temporal)
        ns == Len(filters_spatial)
    IN  [r \in 1..(Len(subject_list) * nt * ns) |->
            BranchRule(subject_list[((r - 1) \div (nt * ns)) + 1],
                       FilterId(filters_spatial[((r - 1) % ns) + 1]),
                       FilterId(filters_temporal[(((r - 1) \div ns) % nt) + 1]))]

\* range(1000) of the '_normfunc_run%d/' rules.
RunRuleCount == 1000

\* Mutant: the two swap rules placed first in the table.
SubstitutionTableSwapFirst ==
    << << <<"multivariate", "/">> \o postfix, postfix \o <<"/", "multivariate">> >>,
       << <<"univariate", "/">> \o postfix, postfix \o <<"/", "univariate">> >> >>
    \o [i \in DOMAIN subject_list |-> SubjectRule(subject_list[i])]
    \o BranchRules
    \o [c \in 1..Len(contrast_list) |-> << <<"_", "normfunc", ToString(c - 1), "/">>, <<>> >>]
    \o [c \in 1..RunRuleCount |->
            << <<"_", "normfunc", "_", "run", ToString(c - 1), "/">>, <<>> >>]

\* The list the substitutions cell builds.
SubstitutionTable ==
    [i \in DOMAIN subject_list |-> SubjectRule(subject_list[i])]
    \o BranchRules
    \o [c \in 1..Len(contrast_list) |-> << <<"_", "normfunc", ToString(c - 1), "/">>, <<>> >>]
    \o [c \in 1..RunRuleCount |->
            << <<"_", "normfunc", "_", "run", ToString(c - 1), "/">>, <<>> >>]
    \o << << <<"multivariate", "/">> \o postfix, postfix \o <<"/", "multivariate">> >> >>
    \o << << <<"univariate", "/">> \o postfix, postfix \o <<"/", "univariate">> >> >>

Substitutions ==
    /\ pc = "substitutions"
    /\ substitutions' = SubstitutionTable
    /\ pc' = "connect"
    /\ UNCHANGED <<config, node_vars, workflow, exec_nodes, deps, status, contrast_vars,
                   per_run_vars, postfix, persisted>>

\* old occurs in p.
Occurs(old, p) ==
    \E k \in 1..(Len(p) - Len(old) + 1) : \A q \in 1..Len(old) : p[k + q - 1] = old[q]

\* p.replace(old, new): every occurrence, left to right, not overlapping.
RECURSIVE Replace(_, _, _)
Replace(p, old, new) ==
    IF Len(p) < Len(old) THEN p
    ELSE IF SubSeq(p, 1, Len(old)) = old
         THEN new \o Replace(SubSeq(p, Len(old) + 1, Len(p)), old, new)
         ELSE <<Head(p)>> \o Replace(Tail(p), old, new)

\* The rules from the i-th on applied to p one after another, in the order
\* of the table (a rule whose pattern does not occur changes nothing, so
\* the next rule to act is the first one whose pattern occurs).
RECURSIVE Substitute(_, _, _)
Substitute(rules, i, p) ==
    LET hits == { j \in i..Len(rules) : Occurs(rules[j][1], p) }
    IN  IF hits = {} THEN p
        ELSE LET j == CHOOSE h \in hits : \A g \in hits : h <= g
             IN  Substitute(rules, j + 1, Replace(p, rules[j][1], rules[j][2]))

\* The parameterization directories of a branch: '_subject_id_<sub>' and
\* '_sFilter_<s>_tFilter_<t>' (a list value is written as its elements
\* joined by '.').
ParamDirs(b) ==
    <<"_", "subject", "_", "id", "_", subject_list[b[1]], "/">>
    \o <<"_", "sFilter", "_">> \o FilterId(filters_spatial[b[3]])
    \o <<"_", "tFilter", "_">> \o FilterId(filters_temporal[b[2]]) \o <<"/">>

\* 1-based positions of the resolved contrasts of a type: SPM numbers its
\* images by the position of the contrast.
Positions(type) == { k \in DOMAIN contrast_list : contrast_list[k][2] = type }

Image(stem, k) == <<stem>> \o [i \in 1..4 |-> ToString(ZeroPad(k, 4)[i])]

\* The images merge hands to normfunc: con images, then ess images.
RECURSIVE Ascending(_)
Ascending(S) ==
    IF S = {} THEN <<>>
    ELSE LET m == CHOOSE x \in S : \A y \in S : x <= y
         IN  <<m>> \o Ascending(S \ {m})

Merged ==
    [i \in 1..Cardinality(Positions("T")) |-> Image("con_", Ascending(Positions("T"))[i])]
    \o [i \in 1..Cardinality(Positions("F")) |-> Image("ess_", Ascending(Positions("F"))[i])]

\* The element indices of the normfunc_run MapNode followed in the model:
\* the first two and the two around the end of the rule range, of a
\* subject with more than RunRuleCount per-run contrasts.
RunElements == {0, 1, RunRuleCount - 1, RunRuleCount}

\* The files an output slot of a producer holds: <<element, directory of
\* the MapNode element, file name>>.
Files(producer, slot) ==
    CASE producer = "level1conest" /\ slot = "spm_mat_file" -> { <<0, <<>>, <<"SPM", ".mat">> >> }
      [] producer = "level1conest" /\ slot = "con_images" ->
            { <<k, <<>>, Image("con_", k) \o <<".nii">> >> : k \in Positions("T") }
      [] producer = "level1conest" /\ slot = "spmT_images" ->
            { <<k, <<>>, Image("spmT_", k) \o <<".nii">> >> : k \in Positions("T") }
      [] producer = "level1conest" /\ slot = "ess_images" ->
            { <<k, <<>>, Image("ess_", k) \o <<".nii">> >> : k \in Positions("F") }
      [] producer = "level1conest" /\ slot = "spmF_images" ->
            { <<k, <<>>, Image("spmF_", k) \o <<".nii">> >> : k \in Positions("F") }
      [] producer = "plot_GLM" -> { <<0, <<>>, <<"SPM", ".svg">> >> }
      [] producer = "gzip" ->
            { <<c - 1, <<"_", "normfunc", ToString(c - 1), "/">>,
                Merged[c] \o <<"_norm", ".nii.gz">> >> : c \in DOMAIN Merged }
      [] producer = "plot_contrasts" ->
            { <<c - 1, <<"_", "normfunc", ToString(c - 1), "/">>,
                Merged[c] \o <<"_norm", ".svg">> >> : c \in DOMAIN Merged }
      [] producer = "gzip_run" ->
            { <<c, <<"_", "normfunc", "_", "run", ToString(c), "/">>,
                Image("con_", c + 1) \o <<"_norm", ".nii.gz">> >> : c \in RunElements }
      [] producer = "write_labels" -> { <<0, <<>>, <<"labels", ".csv">> >> }
      [] OTHER -> {}

\* What one datasink instance receives: <<producer, out slot, destination,
\* <<element, directory, file name>> >>.
SinkInputs ==
    UNION { { <<e[1], e[2], e[4][2], x>> : x \in Files(e[1], e[2]) } :
              e \in {d \in workflow : d[3] = "datasink"} }

\* The expanded branches.
BranchAxes == { <<s, a[1], a[2]>> : s \in SubjectAxis, a \in FilterAxes }

\* The path of a file before substitution, from the output folder on.
InternalPath(dest, b, dir, file) ==
    <<output_folder, "/", dest, "/">> \o ParamDirs(b) \o dir \o file

\* The datasink instances of the run persist their inputs: every file of
\* every instance (producer, slot, branch, element) gets its target path.
Persist ==
    /\ pc = "run"
    /\ persisted' =
          { << <<i[1], i[2], b, i[4][1]>>,
               Substitute(substitutions, 1, InternalPath(i[3], b, i[4][2], i[4][3])) >> :
              i \in SinkInputs, b \in BranchAxes }
    /\ pc' = "persisted"
    /\ UNCHANGED <<config, node_vars, workflow, exec_nodes, deps, status, contrast_vars,
                   per_run_vars, postfix, substitutions>>

(***************************************************************************)
(* create_nuisance_regressors.  A column header and a selector are strings, *)
(* written as sequences of the words they are made of; 'n in k' is the     *)
(* substring test.                                                         *)
(***************************************************************************)
RECURSIVE Concat(_)
Concat(seqs) == IF Len(seqs) = 0 THEN <<>> ELSE Head(seqs) \o Concat(Tail(seqs))

\* [k for k in df.keys() for n in nuisance_regressors if n in k]
Selection(keys, selectors) ==
    LET Hits(k) == LET Matches(n) == Occurs(n, k)
                   IN  SelectSeq(selectors, Matches)
    IN  Concat([c \in DOMAIN keys |->
                  [h \in DOMAIN Hits(keys[c]) |-> keys[c]]])

\* for i, c in enumerate(confounds): ... np.savetxt(out_file, df[selection].values)
CreateNuisanceRegressors ==
    /\ pc = "nuisance_reg"
    /\ regressor_files' =
          [i \in DOMAIN confounds |->
              [out_file |-> <<"confounds_", ZeroPad(i - 1, 2), ".rst">>,
               columns |-> Selection(confounds[i], nuisance_regressors)]]
    /\ pc' = "nuisance_done"
    /\ UNCHANGED <<config, workflow, exec_nodes, deps, status, contrast_vars,
                   per_run_vars, sink_vars, confounds, nuisance_regressors,
                   high_pass_filter_cutoff, info_vars, map_vars, file_vars>>

(***************************************************************************)
(* subjectinfo.  The files of a subject and task are tables indexed by the *)
(* run number in their name; a run without the file has present = FALSE.   *)
(***************************************************************************)
\* The ascending sequence of a set of numbers.
RECURSIVE Sorted(_)
Sorted(S) ==
    IF S = {} THEN <<>>
    ELSE LET m == CHOOSE x \in S : \A y \in S : x <= y
         IN  <<m>> \o Sorted(S \ {m})

\* sorted(glob(file_template)): the runs that have the file, by name.
SortedGlob(files) == Sorted({ r \in DOMAIN files : files[r].present })

\* The keys of trialinfo.groupby('condition') come in sorted order.
ConditionOrder == <<"empty", "face", "house">>

Group(rows, c) == LET Is(row) == row.condition = c IN SelectSeq(rows, Is)

\* Mutant: the 'empty' trials kept as a model condition.
BunchWithEmpty(rows, nss) ==
    LET Kept(c) == Group(rows, c) # <<>>
        keys == SelectSeq(ConditionOrder, Kept)
    IN  [conditions |-> keys,
         onsets |-> [g \in DOMAIN keys |->
                       [q \in DOMAIN Group(rows, keys[g]) |->
                          Group(rows, keys[g])[q].onset - nss]],
         durations |-> [g \in DOMAIN keys |->
                          [q \in DOMAIN Group(rows, keys[g]) |->
                             Group(rows, keys[g])[q].duration]]]

\* Bunch(conditions, onsets, durations) of one event table and one offset.
Bunch(rows, nss) ==
    LET Kept(c) == c # "empty" /\ Group(rows, c) # <<>>
        keys == SelectSeq(ConditionOrder, Kept)
    IN  [conditions |-> keys,
         onsets |-> [g \in DOMAIN keys |->
                       [q \in DOMAIN Group(rows, keys[g]) |->
                          Group(rows, keys[g])[q].onset - nss]],
         durations |-> [g \in DOMAIN keys |->
                          [q \in DOMAIN Group(rows, keys[g]) |->
                             Group(rows, keys[g])[q].duration]]]

\* for i, f in enumerate(event_files): ... nss = np.loadtxt(nss_files[i]) ...
Subjectinfo ==
    /\ pc = "subjectinfo"
    /\ LET events == SortedGlob(event_files)
           nss == SortedGlob(nss_files)
       IN  IF Len(nss) < Len(events)
           THEN pc' = "IndexError" /\ UNCHANGED <<subject_info, stimuli_order>>
           ELSE /\ subject_info' =
                     [i \in DOMAIN events |->
                         Bunch(event_files[events[i]].rows, nss_files[nss[i]].offset)]
                /\ stimuli_order' =
                     [i \in DOMAIN events |->
                         [q \in DOMAIN event_files[events[i]].rows |->
                             event_files[events[i]].rows[q].condition]]
                /\ pc' = "subjectinfo_done"
    /\ UNCHANGED <<config, workflow, exec_nodes, deps, status, contrast_vars,
                   run_contrasts, condition_labels, labels_file, sink_vars,
                   nuisance_vars, high_pass_filter_cutoff, event_files, nss_files,
                   map_vars, file_vars>>

(***************************************************************************)
(* The execution of one MapNode instance: the lengths of the sequences     *)
(* bound to its iterfields are validated, then the wrapped transformation  *)
(* is invoked once per element and the outputs are collected in order.     *)
(***************************************************************************)
\* The iterfield lists declared in the notebook (gunzip; normfunc and
\* normfunc_run; gzip, gzip_run and plot_contrasts).
DeclaredIterfields == { <<"in_file">>, <<"input_image">>, <<"contrast">> }

\* An iterfield list of two input slots of the transform interface.
TwoIterfields == <<"input_image", "transforms">>

\* Mutant: no validation of the lengths.
EqualLengthsUnchecked == TRUE

\* All iterfields are bound to sequences of the same length.
EqualLengths ==
    \A f, g \in DOMAIN iterfield : Len(map_inputs[f]) = Len(map_inputs[g])

\* The number of element invocations: the length of the first iterfield.
Elements == Len(map_inputs[1])

MapNodeValidate ==
    /\ pc = "mapnode"
    /\ pc' = IF EqualLengths THEN "dispatch" ELSE "LengthMismatchError"
    /\ UNCHANGED <<config, workflow, exec_nodes, deps, status, contrast_vars,
                   per_run_vars, sink_vars, nuisance_vars, high_pass_filter_cutoff,
                   info_vars, map_vars, file_vars>>

\* The next element invocation: the output of element k is made of the
\* k-th element of every iterfield.
MapNodeInvoke ==
    /\ pc = "dispatch"
    /\ Len(map_outputs) < Elements
    /\ LET k == Len(map_outputs) + 1
       IN  map_outputs' = Append(map_outputs,
                                 [f \in DOMAIN iterfield |-> map_inputs[f][k]])
    /\ UNCHANGED <<config, pc, workflow, exec_nodes, deps, status, contrast_vars,
                   per_run_vars, sink_vars, nuisance_vars, high_pass_filter_cutoff,
                   info_vars, iterfield, map_inputs, file_vars>>

MapNodeCollect ==
    /\ pc = "dispatch"
    /\ Len(map_outputs) = Elements
    /\ pc' = "mapnode_done"
    /\ UNCHANGED <<config, workflow, exec_nodes, deps, status, contrast_vars,
                   per_run_vars, sink_vars, nuisance_vars, high_pass_filter_cutoff,
                   info_vars, map_vars, file_vars>>

(***************************************************************************)
(* create_file_path (selectfiles) and the run-wise inputs of modelspec.  A *)
(* file is written <<kind, run>>, after the run number in its name.        *)
(***************************************************************************)
\* sorted(glob(...)) of the files of one kind: the runs that have the file.
Glob(kind) ==
    LET runs == Sorted({ r \in DOMAIN preproc_files[kind] : preproc_files[kind][r] })
    IN  [k \in DOMAIN runs |-> <<kind, runs[k]>>]

\* transforms = glob(...)[0]; func, outliers, confounds = sorted(glob(...))
CreateFilePath ==
    /\ pc = "selectfiles"
    /\ IF ~preproc_files.transforms
       THEN pc' = "IndexError" /\ UNCHANGED selected_files
       ELSE /\ selected_files' = [transforms |-> <<"transforms", 0>>,
                                  func |-> Glob("func"),
                                  outliers |-> Glob("outliers"),
                                  confounds |-> Glob("confounds")]
            /\ pc' = "subjectinfo"
    /\ UNCHANGED <<config, workflow, exec_nodes, deps, status, contrast_vars,
                   per_run_vars, sink_vars, nuisance_vars, high_pass_filter_cutoff,
                   info_vars, map_vars, preproc_files, modelspec_inputs>>

\* What modelspec receives over its edges: the gunzipped functional runs (a
\* MapNode keeps the order of its input), the regressor files of
\* nuisance_reg (one per confound file, in order), the subject_info and,
\* with use_outliers, the outlier files.
ModelspecInputs ==
    /\ pc = "subjectinfo_done"
    /\ modelspec_inputs' =
          [functional_runs |-> selected_files.func,
           realignment_parameters |-> selected_files.confounds,
           outlier_files |-> IF use_outliers THEN selected_files.outliers ELSE <<>>,
           subject_info |-> subject_info]
    /\ pc' = "modelspec_inputs"
    /\ UNCHANGED <<config, workflow, exec_nodes, deps, status, contrast_vars,
                   per_run_vars, sink_vars, nuisance_vars, high_pass_filter_cutoff,
                   info_vars, map_vars, preproc_files, selected_files>>

(***************************************************************************)
(* Specifications.                                                         *)
(***************************************************************************)
InitWorkflow ==
    /\ workflow = {}
    /\ exec_nodes = {}
    /\ deps = <<>>
    /\ status = <<>>

\* Nothing resolved, computed or persisted yet.
InitContrasts ==
    /\ con_specs = <<>>
    /\ condition_names = <<>>
    /\ contrast_list = <<>>

InitPerRun ==
    /\ stimuli_order = <<>>
    /\ run_contrasts = <<>>
    /\ condition_labels = <<>>
    /\ labels_file = <<>>

InitSink ==
    /\ postfix = <<>>
    /\ substitutions = <<>>
    /\ persisted = {}

InitNuisance ==
    /\ confounds = <<>>
    /\ nuisance_regressors = <<>>
    /\ regressor_files = <<>>

\* The modelspec cell has run (no cutoff where there are no filters to take
\* it from).
InitModelspec ==
    high_pass_filter_cutoff =
        IF Len(filters_temporal) > 0 THEN filters_temporal[1][2] ELSE <<>>

InitInfo ==
    /\ event_files = <<>>
    /\ nss_files = <<>>
    /\ subject_info = <<>>

InitMap ==
    /\ iterfield = <<>>
    /\ map_inputs = <<>>
    /\ map_outputs = <<>>

InitFiles ==
    /\ preproc_files = <<>>
    /\ selected_files = <<>>
    /\ modelspec_inputs = <<>>

\* No node function has run.
InitNodes == InitNuisance /\ InitModelspec /\ InitInfo /\ InitMap /\ InitFiles

\* A scheduled run of the core workflow (with or without the outlier edge):
\* at most MaxBranches branches on at most MaxProcs workers.
Init ==
    /\ \E m \in 1..MaxBranches, n \in 1..MaxBranches, k \in 1..MaxBranches :
          /\ m * n * k <= MaxBranches
          /\ subject_list = Prefix(AllSubjects, m)
          /\ filters_temporal = Prefix(AllTemporal, n)
          /\ filters_spatial = Prefix(AllSpatial, k)
    /\ n_proc \in 1..MaxProcs
    /\ use_outliers \in BOOLEAN
    /\ normlaize = FALSE
    /\ con_per_run = FALSE
    /\ pc = "connect"
    /\ InitNodes /\ InitWorkflow /\ InitContrasts /\ InitPerRun /\ InitSink

Assemble == ConnectCore \/ ConnectOutliers \/ ConnectNormalize \/ ConnectPerRun

Next ==
    \/ Assemble
    \/ Run
    \/ Expand
    \/ Schedule
    \/ \E i \in exec_nodes : Complete(i)
    \/ \E i \in exec_nodes : Fail(i)
    \/ Return

Spec == Init /\ [][Next]_vars

\* The notebook runs its cells one after another, the engine keeps polling
\* its workers, and every node execution finishes (by completing or by
\* failing): as long as a step is possible, one is taken.
\* The engine's scheduling loop keeps polling while work is outstanding: a
\* submitted instance eventually finishes or fails and the loop eventually
\* takes its next step.
Fairness == WF_vars(Next)

\* The fair run is checked with the outlier regressors connected.
InitFair == Init /\ use_outliers

SpecFair == InitFair /\ [][Next]_vars /\ Fairness

\* Assembly and expansion alone, under every flag combination and every axis
\* length up to MaxAxis.
InitExpand ==
    /\ \E m \in 1..MaxAxis, n \in 1..MaxAxis, k \in 1..MaxAxis :
          /\ subject_list = Prefix(AllSubjects, m)
          /\ filters_temporal = Prefix(AllTemporal, n)
          /\ filters_spatial = Prefix(AllSpatial, k)
    /\ n_proc = 1
    /\ use_outliers \in BOOLEAN
    /\ normlaize \in BOOLEAN
    /\ con_per_run \in BOOLEAN
    /\ pc = "connect"
    /\ InitNodes /\ InitWorkflow /\ InitContrasts /\ InitPerRun /\ InitSink

NextExpand == Assemble \/ Run \/ Expand

SpecExpand == InitExpand /\ [][NextExpand]_vars

\* The contrasts a specification file may declare.
Declarations ==
    << [name |-> "faces", type |-> "T", weights |-> <<1, 0>>],
       [name |-> "diff", type |-> "T", weights |-> <<1, -1>>],
       [name |-> "any", type |-> "F", weights |-> << <<1, 0>>, <<0, 1>> >>],
       [name |-> "one", type |-> "F", weights |-> << <<1, -1>> >>],
       [name |-> "none", type |-> "F", weights |-> << >>],
       [name |-> "other", type |-> "t", weights |-> <<0, 1>>] >>

SeqsUpTo(S, n) == UNION { [1..k -> S] : k \in 0..n }

\* Contrast resolution for every list of at most MaxContrasts declarations.
InitContrast ==
    /\ subject_list = <<>> /\ filters_temporal = <<>> /\ filters_spatial = <<>>
    /\ use_outliers = FALSE /\ normlaize = FALSE /\ con_per_run = FALSE
    /\ n_proc = 1
    /\ pc = "contrasts_F"
    /\ InitNodes /\ InitWorkflow /\ InitPerRun /\ InitSink
    /\ \E pick \in SeqsUpTo(DOMAIN Declarations, MaxContrasts) :
          con_specs = [i \in DOMAIN pick |-> Declarations[pick[i]]]
    /\ condition_names = <<"face", "house">>
    /\ contrast_list = <<>>

NextContrast == AggregateF \/ AggregateT

SpecContrast == InitContrast /\ [][NextContrast]_vars

Conditions == {"face", "house"}

\* The contrast_per_run and write_labels nodes of one subject, for every
\* stimuli_order of at most MaxRuns runs of at most MaxEvents events.
InitContrastPerRun ==
    /\ subject_list = <<>> /\ filters_temporal = <<>> /\ filters_spatial = <<>>
    /\ use_outliers = FALSE /\ normlaize = FALSE /\ con_per_run = TRUE
    /\ n_proc = 1
    /\ pc = "contrast_per_run"
    /\ InitNodes /\ InitWorkflow /\ InitSink
    /\ con_specs = <<>> /\ contrast_list = <<>>
    /\ condition_names \in { <<"face", "house">>, <<"face">> }
    /\ stimuli_order \in SeqsUpTo(SeqsUpTo(Conditions, MaxEvents), MaxRuns)
    /\ run_contrasts = <<>>
    /\ condition_labels = <<>>
    /\ labels_file = <<>>

NextPerRun == GetContrastPerRun \/ WriteLabelsFile

SpecPerRun == InitContrastPerRun /\ [][NextPerRun]_vars

\* The notebook from the modelspec cell to the expansion, under every flag
\* combination and every axis length from 0 to MaxAxis.
InitAxes ==
    /\ \E m \in 0..MaxAxis, n \in 0..MaxAxis, k \in 0..MaxAxis :
          /\ subject_list = Prefix(AllSubjects, m)
          /\ filters_temporal = Prefix(AllTemporal, n)
          /\ filters_spatial = Prefix(AllSpatial, k)
    /\ n_proc = 1
    /\ use_outliers \in BOOLEAN
    /\ normlaize \in BOOLEAN
    /\ con_per_run \in BOOLEAN
    /\ pc = "modelspec"
    /\ InitNuisance /\ InitInfo /\ InitMap /\ InitFiles
    /\ InitWorkflow /\ InitContrasts /\ InitPerRun /\ InitSink
    /\ high_pass_filter_cutoff = <<>>

NextAxes == Modelspec \/ Assemble \/ RunEmptyAxis \/ Run \/ Expand

SpecAxes == InitAxes /\ [][NextAxes]_vars

Row(c, onset, duration) == [condition |-> c, onset |-> onset, duration |-> duration]

\* Event tables: two conditions, a table with 'empty' trials, a header only.
EventTables ==
    { << Row("face", 10, 4), Row("house", 20, 4), Row("face", 30, 5) >>,
      << Row("house", 12, 4), Row("empty", 16, 2), Row("face", 24, 4) >>,
      << >> }

\* The number stored in an offset file.
Offsets == {0, 2, 3}

FileRuns == 1..MaxFileRuns

\* getsubjectinfo for one subject and task, for every set of runs that have
\* an event file and every set of runs that have an offset file.
InitSubjectinfo ==
    /\ subject_list = <<>> /\ filters_temporal = <<>> /\ filters_spatial = <<>>
    /\ use_outliers = FALSE /\ normlaize = FALSE /\ con_per_run = FALSE
    /\ n_proc = 1
    /\ pc = "subjectinfo"
    /\ InitNuisance /\ InitModelspec /\ InitMap /\ InitFiles
    /\ InitWorkflow /\ InitContrasts /\ InitPerRun /\ InitSink
    /\ event_files \in
          [FileRuns -> { [present |-> TRUE, rows |-> t] : t \in EventTables }
                       \cup { [present |-> FALSE, rows |-> <<>>] }]
    /\ nss_files \in
          [FileRuns -> { [present |-> TRUE, offset |-> o] : o \in Offsets }
                       \cup { [present |-> FALSE, offset |-> 0] }]
    /\ subject_info = <<>>

NextSubjectinfo == Subjectinfo

SpecSubjectinfo == InitSubjectinfo /\ [][NextSubjectinfo]_vars

\* The sequence of n elements bound to slot f.
BoundSequence(f, n) == [k \in 1..n |-> <<f, k>>]

\* One MapNode instance, for every declared iterfield list and for a list of
\* two iterfields, bound to sequences of every length up to MaxElements.
InitMapNode ==
    /\ subject_list = <<>> /\ filters_temporal = <<>> /\ filters_spatial = <<>>
    /\ use_outliers = FALSE /\ normlaize = FALSE /\ con_per_run = FALSE
    /\ n_proc = 1
    /\ pc = "mapnode"
    /\ InitNuisance /\ InitModelspec /\ InitInfo /\ InitFiles
    /\ InitWorkflow /\ InitContrasts /\ InitPerRun /\ InitSink
    /\ iterfield \in DeclaredIterfields \cup {TwoIterfields}
    /\ \E len \in [DOMAIN iterfield -> 0..MaxElements] :
          map_inputs = [f \in DOMAIN iterfield |-> BoundSequence(iterfield[f], len[f])]
    /\ map_outputs = <<>>

NextMapNode == MapNodeValidate \/ MapNodeInvoke \/ MapNodeCollect

SpecMapNode == InitMapNode /\ [][NextMapNode]_vars

\* The event table and the offset of run r.
RunTable(r) == << Row("face", 10 * r, 4), Row("house", 10 * r + 5, 4) >>

RunOffset(r) == r

\* selectfiles, getsubjectinfo and the inputs of modelspec in one branch, for
\* every set of files on disk: each run may lack any of its files.
InitSelectfiles ==
    /\ subject_list = <<>> /\ filters_temporal = <<>> /\ filters_spatial = <<>>
    /\ use_outliers \in BOOLEAN
    /\ normlaize = FALSE /\ con_per_run = FALSE
    /\ n_proc = 1
    /\ pc = "selectfiles"
    /\ InitNuisance /\ InitModelspec /\ InitMap
    /\ InitWorkflow /\ InitContrasts /\ InitPerRun /\ InitSink
    /\ \E ev \in SUBSET FileRuns, ns \in SUBSET FileRuns :
          /\ event_files = [r \in FileRuns |->
                               IF r \in ev THEN [present |-> TRUE, rows |-> RunTable(r)]
                               ELSE [present |-> FALSE, rows |-> <<>>]]
          /\ nss_files = [r \in FileRuns |->
                             IF r \in ns THEN [present |-> TRUE, offset |-> RunOffset(r)]
                             ELSE [present |-> FALSE, offset |-> 0]]
    /\ subject_info = <<>>
    /\ preproc_files \in [transforms : BOOLEAN,
                          func : [FileRuns -> BOOLEAN],
                          outliers : [FileRuns -> BOOLEAN],
                          confounds : [FileRuns -> BOOLEAN]]
    /\ selected_files = <<>>
    /\ modelspec_inputs = <<>>

NextSelectfiles == CreateFilePath \/ Subjectinfo \/ ModelspecInputs

SpecSelectfiles == InitSelectfiles /\ [][NextSelectfiles]_vars

\* The words of a column header or of a selector, and the strings of one or
\* two words.
HeaderWords == {"Rot", "X"}
HeaderStrings == [1..1 -> HeaderWords] \cup [1..2 -> HeaderWords]

IsInjective(f) == \A a, b \in DOMAIN f : f[a] = f[b] => a = b

\* The headers of a table read by pandas are pairwise different.
Tables == { t \in SeqsUpTo(HeaderStrings, MaxColumns) : IsInjective(t) }

\* The nuisance_reg node of one subject with one or two runs whose confound
\* files have the same columns, for every table of at most MaxColumns columns
\* and every list of at most MaxSelectors selectors.
InitNuisanceReg ==
    /\ subject_list = <<>> /\ filters_temporal = <<>> /\ filters_spatial = <<>>
    /\ use_outliers = FALSE /\ normlaize = FALSE /\ con_per_run = FALSE
    /\ n_proc = 1
    /\ pc = "nuisance_reg"
    /\ InitWorkflow /\ InitContrasts /\ InitPerRun /\ InitSink
    /\ \E t \in Tables : confounds \in { <<t>>, <<t, t>> }
    /\ nuisance_regressors \in SeqsUpTo(HeaderStrings, MaxSelectors)
    /\ regressor_files = <<>>
    /\ InitModelspec /\ InitInfo /\ InitMap /\ InitFiles

NextNuisanceReg == CreateNuisanceRegressors

SpecNuisanceReg == InitNuisanceReg /\ [][NextNuisanceReg]_vars

\* Temporal filters of a persisted run; the last two are written alike.
SinkTemporal ==
    << <<Flt(5, 0), Flt(100, 0)>>, <<Flt(5, 1), Num(0)>>, <<Num(5), Flt(1, 0)>> >>

\* The substitution table, the assembly and the datasink of a run with at
\* most MaxSinkBranches branches, under every combination of normalize and
\* con_per_run, with one T and one F contrast resolved.
InitPersist ==
    /\ \E m \in 1..MaxSinkBranches, n \in 1..Len(SinkTemporal), k \in 1..MaxSinkBranches :
          /\ m * n * k <= MaxSinkBranches
          /\ m <= Len(AllSubjects) /\ k <= Len(AllSpatial)
          /\ subject_list = Prefix(AllSubjects, m)
          /\ filters_temporal = Prefix(SinkTemporal, n)
          /\ filters_spatial = Prefix(AllSpatial, k)
    /\ n_proc = 1
    /\ use_outliers = FALSE
    /\ normlaize \in BOOLEAN
    /\ con_per_run \in BOOLEAN
    /\ pc = "substitutions"
    /\ InitNodes /\ InitWorkflow /\ InitPerRun
    /\ con_specs = <<Declarations[1], Declarations[3]>>
    /\ condition_names = <<"face", "house">>
    /\ contrast_list = FContrasts(con_specs) \o TContrasts(con_specs)
    /\ postfix = <<"GLM">>
    /\ substitutions = <<>>
    /\ persisted = {}

NextPersist == Substitutions \/ Assemble \/ Persist

SpecPersist == InitPersist /\ [][NextPersist]_vars

(***************************************************************************)
(* Properties of the expansion and of the assembled workflow.              *)
(***************************************************************************)
Expanded == pc \in {"schedule", "loop", "done"}

Assembled == pc \notin {"connect", "outliers", "normalize", "per_run"}

\* The parameter values of a branch.
BranchValues(b) ==
    <<subject_list[b[1]], filters_temporal[b[2]], filters_spatial[b[3]]>>

\* C1: the expanded workflow has exactly m*n*k branches, one for every
\* (subject, temporal filter, spatial filter) combination; two subjects with
\* one temporal and one spatial filter give exactly 2 branches.
C1_BranchCount ==
    Expanded =>
        /\ Cardinality(Branches) =
              Len(subject_list) * Len(filters_temporal) * Len(filters_spatial)
        /\ Cardinality({x \in exec_nodes : x[1] = "datasink"}) = Cardinality(Branches)
        /\ { BranchValues(b) : b \in Branches } =
              { <<subject_list[s], filters_temporal[t], filters_spatial[f]>> :
                  s \in 1..Len(subject_list), t \in 1..Len(filters_temporal),
                  f \in 1..Len(filters_spatial) }
        /\ (Len(subject_list) = 2 /\ Len(filters_temporal) = 1
              /\ Len(filters_spatial) = 1) => Cardinality(Branches) = 2

C1_Witness ==
    /\ Expanded
    /\ Len(subject_list) = 2 /\ Len(filters_temporal) = 2 /\ Len(filters_spatial) = 2
    /\ Cardinality(Branches) = 8

(***************************************************************************)
(* Properties of the scheduling loop.                                      *)
(***************************************************************************)
\* Two instances that can belong to one branch.
SameBranch(i, j) == \A p \in 2..4 : i[p] = 0 \/ j[p] = 0 \/ i[p] = j[p]

\* The model chain of one branch, in the order it has to start.
ModelChain ==
    { <<"modelspec", "level1design">>, <<"level1design", "level1estimate">>,
      <<"level1estimate", "level1conest">>, <<"level1conest", "datasink">> }

\* The producers the core connect call wires to the datasink.
SinkProducers == {"plot_GLM", "level1conest"}

\* An instance other than j that j has to wait for: a producer of j by an
\* edge of the workflow, or the node before j's node in the model chain, or
\* (for the datasink) a producer wired to it, in j's branch.
MustPrecede(i, j) ==
    \/ InstEdge(workflow, i, j)
    \/ SameBranch(i, j) /\ <<i[1], j[1]>> \in ModelChain
    \/ SameBranch(i, j) /\ j[1] = "datasink" /\ i[1] \in SinkProducers

\* C2: an instance is running only if every instance it has an incoming
\* edge from in its branch has completed, so it started after them;
\* modelspec, level1design, level1estimate, level1conest and datasink of one
\* branch start in that order, and datasink starts only after every producer
\* wired to it has completed.
C2_DependencyOrder ==
    Expanded =>
        \A j \in WithStatus(status, "running") :
            \A i \in exec_nodes : MustPrecede(i, j) => status[i] = "completed"

\* A datasink instance runs, fed by completed producers, while another
\* branch has not yet reached its model chain.
C2_Witness ==
    /\ pc = "loop"
    /\ \E j \in exec_nodes :
          /\ j[1] = "datasink" /\ status[j] = "running"
          /\ \E i \in exec_nodes : InstEdge(workflow, i, j) /\ i[1] = "plot_GLM"
          /\ \A i \in exec_nodes : InstEdge(workflow, i, j) => status[i] = "completed"
          /\ \E i \in exec_nodes :
                i[1] = "modelspec" /\ ~SameBranch(i, j) /\ status[i] = "pending"

Failed == WithStatus(status, "failed")

\* The instances of branch b.
BranchInstances(b) == { i \in exec_nodes : InBranch(i, b) }

\* The failed instances and their topological descendants.
FailedCone == Downstream(Failed)

\* C3: once an instance has failed, every topological descendant of it is
\* skipped (and, being skipped in every later state, is never executed), and
\* nothing else is; when the run returns, every branch that holds neither a
\* failed instance nor a descendant of one has completed, as it does in a run
\* without failures.
C3_FailureIsolation ==
    (Expanded /\ Failed # {}) =>
        LET cone == FailedCone
        IN  /\ \A j \in cone \ Failed : status[j] = "skipped"
            /\ WithStatus(status, "skipped") \subseteq cone
            /\ pc = "done" =>
                  \A b \in Branches : BranchInstances(b) \cap cone = {} =>
                      \A i \in BranchInstances(b) : status[i] = "completed"

\* A run has returned with a failed instance whose descendants, direct and
\* indirect, were skipped, and a sibling branch that completed.
C3_Witness ==
    /\ pc = "done"
    /\ \E i \in Failed : \E j \in InstDescendants(i) :
          InstDescendants(j) # {} /\ status[j] = "skipped"
    /\ \E b \in Branches :
          /\ BranchInstances(b) \cap FailedCone = {}
          /\ \A i \in BranchInstances(b) : status[i] = "completed"

\* C10: the number of running instances, over all branches together, never
\* exceeds n_parallel_jobs.
C10_WorkerBudget ==
    Expanded => Cardinality(WithStatus(status, "running")) <= n_proc

\* Every worker is busy with instances of two different branches while a
\* ready instance waits.
C10_Witness ==
    /\ pc = "loop"
    /\ n_proc = 2
    /\ Cardinality(WithStatus(status, "running")) = n_proc
    /\ Ready(status) # {}
    /\ \E i, j \in WithStatus(status, "running") : ~SameBranch(i, j)

\* The edges of the workflow that persist an output under destination dest.
SinkEdges(dest) == { e \in workflow : e[3] = "datasink" /\ e[4][2] = dest }

\* Datasink slots that hold normalized artifacts.
NormSlots == {"@norm_files", "@norm_plot"}

\* The nodes of the spatial-normalization sub-graph.
NormalizeNodes == {"merge", "normfunc", "gzip", "plot_contrasts"}

\* C4: the spatial-normalization sub-graph is part of the assembled workflow
\* only if normalize is true; with normalize false no transform-application
\* node is connected and no normalized artifact is persisted, whatever
\* use_outliers and con_per_run are.
C4_NormalizeGated ==
    Assembled =>
        /\ NodesOf(workflow) \cap NormalizeNodes # {} => normlaize
        /\ ~normlaize =>
              /\ NodesOf(workflow) \cap TransformNodes = {}
              /\ \A e \in workflow : e[3] = "datasink" => e[4][3] \notin NormSlots

\* C7: the datasink has an incoming edge under the multivariate destination
\* if and only if con_per_run is true, whatever normalize and use_outliers
\* are; with con_per_run true both the per-run contrast maps (gzip_run) and
\* the label file (write_labels) are wired to it.
C7_MultivariateGated ==
    Assembled =>
        /\ SinkEdges("multivariate") # {} <=> con_per_run
        /\ con_per_run =>
              /\ <<"gzip_run", "out_file", "datasink",
                    Sink("multivariate", "@norm_files")>> \in workflow
              /\ <<"write_labels", "labels_file", "datasink",
                    Sink("multivariate", "@norm_labels")>> \in workflow

\* A workflow assembled with con_per_run true and normalize false whose
\* datasink is fed under the multivariate destination by two producers.
C7_Witness ==
    /\ Assembled /\ con_per_run /\ ~normlaize
    /\ {e[1] : e \in SinkEdges("multivariate")} = {"gzip_run", "write_labels"}
    /\ SinkEdges("univariate") # {}

(***************************************************************************)
(* Properties of the notebook's functions.                                 *)
(***************************************************************************)
\* C5: for every stimuli_order, get_contrast_per_run returns exactly
\* len(condition_names) * R entries, R being the number of runs (event
\* tables) of the subject, runs without rows included, and the label file
\* has the same number of rows.
C5_PerRunCount ==
    pc \in {"write_labels", "labels_written", "ValueError"} =>
        /\ pc # "ValueError"
        /\ Len(run_contrasts) = Len(condition_names) * Len(stimuli_order)
        /\ pc = "labels_written" =>
              Len(labels_file) = Len(condition_names) * Len(stimuli_order)

\* The four digits of n < 10000, most significant first.
FourDigits(n) == <<n \div 1000, (n \div 100) % 10, (n \div 10) % 10, n % 10>>

\* Entry e is the resolved form of declaration c.
IsEntryFor(e, c) ==
    /\ e[1] = c.name
    /\ e[2] = c.type
    /\ \/ /\ c.type = "T"
          /\ Len(e) = 4
          /\ e[3] = condition_names
          /\ e[4] = c.weights
       \/ /\ c.type = "F"
          /\ Len(e) = 3
          /\ Len(e[3]) = Len(c.weights)
          /\ \A i \in 1..Len(c.weights) :
                e[3][i] = << <<"T_con_", FourDigits(i - 1)>>, "T", condition_names,
                             c.weights[i] >>

\* The positions of the declarations of type T or F.
Resolvable == { d \in DOMAIN con_specs : con_specs[d].type \in {"T", "F"} }

\* C6: the resolved list consists of one entry [name, 'T', condition_names,
\* weights] for every declared T contrast and one entry [name, 'F', L] for
\* every declared F contrast, L holding one embedded T-contrast per weight
\* row, the i-th (from 0) named 'T_con_' + i padded to 4 digits; it has no
\* other entry.
C6_ContrastResolution ==
    pc = "contrasts_done" =>
        \E f \in [Resolvable -> DOMAIN contrast_list] :
            /\ \A d1, d2 \in Resolvable : f[d1] = f[d2] => d1 = d2
            /\ \A k \in DOMAIN contrast_list : \E d \in Resolvable : f[d] = k
            /\ \A d \in Resolvable : IsEntryFor(contrast_list[f[d]], con_specs[d])

\* A T contrast and an F contrast with two weight rows have been resolved.
C6_Witness ==
    /\ pc = "contrasts_done"
    /\ \E d \in DOMAIN con_specs : con_specs[d].type = "T"
    /\ \E k \in DOMAIN contrast_list :
          /\ contrast_list[k][2] = "F"
          /\ Len(contrast_list[k][3]) = 2
          /\ contrast_list[k][3][2][1] = <<"T_con_", <<0, 0, 0, 1>> >>

(***************************************************************************)
(* Properties of the persisted tree.                                       *)
(***************************************************************************)
\* No two instances share a target path.
NoSharedTarget == \A x, y \in persisted : x[2] = y[2] => x[1] = y[1]

Injective(f) == \A i, j \in DOMAIN f : f[i] = f[j] => i = j

\* The subject ids and the '.'-joined filter settings are pairwise distinct.
DistinctIds ==
    /\ Injective(subject_list)
    /\ Injective([i \in DOMAIN filters_temporal |-> FilterId(filters_temporal[i])])
    /\ Injective([i \in DOMAIN filters_spatial |-> FilterId(filters_spatial[i])])

\* C8 as stated: for every subject list, filter lists, contrast list and
\* flag combination, no two distinct execution instances (branch, node or
\* MapNode element) are routed to the same target path after substitution.
C8_NoSharedTarget == pc = "persisted" => NoSharedTarget

\* C8, amended: the same, for subject ids and filter settings that are
\* pairwise distinct as written in paths (filter values joined by '.').
C8_NoSharedTargetDistinctIds == (pc = "persisted" /\ DistinctIds) => NoSharedTarget

\* Two subjects and two temporal filters, both optional sub-graphs on: the
\* files of several branches, nodes and MapNode elements are persisted.
C8_Witness ==
    /\ pc = "persisted" /\ DistinctIds
    /\ normlaize /\ con_per_run
    /\ Len(subject_list) = 2 /\ Len(filters_temporal) = 2
    /\ \E x, y \in persisted :
          /\ x[1][1] = "gzip_run" /\ y[1][1] = "gzip_run"
          /\ x[1][3] = y[1][3] /\ x[1][4] # y[1][4]
    /\ \E x, y \in persisted : x[1][1] = "gzip" /\ y[1][1] = "gzip" /\ x[1][3] # y[1][3]

\* The target of univariate file f of branch b:
\* '<postfix>/univariate/sub-<sub>/sub-<sub>_sFilter_<s>_tFilter_<t>_f'
\* under the output folder.
UnivariateTarget(b, file) ==
    <<output_folder, "/">> \o postfix
    \o <<"/", "univariate", "/", "sub-", subject_list[b[1]], "/",
         "sub-", subject_list[b[1]], "_", "sFilter", "_">>
    \o FilterId(filters_spatial[b[3]])
    \o <<"_", "tFilter", "_">> \o FilterId(filters_temporal[b[2]]) \o <<"_">> \o file

\* C9: the rules act in declaration order, and every univariate file f with
\* internal path 'univariate/_subject_id_<sub>/_sFilter_<s>_tFilter_<t>/f'
\* is persisted at
\* '<postfix>/univariate/sub-<sub>/sub-<sub>_sFilter_<s>_tFilter_<t>_f'
\* under the output folder, with no '_subject_id_' component left.
C9_UnivariateTarget ==
    pc = "persisted" =>
        \A i \in SinkInputs : \A b \in BranchAxes :
            (i[3] = "univariate" /\ i[4][2] = <<>>) =>
                /\ << <<i[1], i[2], b, i[4][1]>>, UnivariateTarget(b, i[4][3]) >>
                      \in persisted
                /\ ~Occurs(<<"_", "subject", "_", "id", "_">>,
                           UnivariateTarget(b, i[4][3]))
                /\ \A x \in persisted :
                      x[1] = <<i[1], i[2], b, i[4][1]>> =>
                          x[2] = UnivariateTarget(b, i[4][3])

\* The design-matrix plot of the second of two subjects has been persisted
\* under '<postfix>/univariate/sub-02/'.
C9_Witness ==
    /\ pc = "persisted"
    /\ \E x \in persisted :
          /\ x[1][1] = "plot_GLM" /\ x[1][3][1] = 2
          /\ SubSeq(x[2], 1, 9) =
                <<output_folder, "/", "GLM", "/", "univariate", "/", "sub-", "02", "/">>

(***************************************************************************)
(* Termination of the run.                                                 *)
(***************************************************************************)
\* A branch is completed when all its instances are, and failed when one of
\* its instances failed or was skipped and none is still to run.
BranchStatus(b) ==
    IF \A i \in BranchInstances(b) : status[i] = "completed" THEN "completed"
    ELSE IF \A i \in BranchInstances(b) : status[i] \in Terminal THEN "failed"
    ELSE "open"

\* C11: every run eventually returns, and when it has returned every branch
\* is completed or failed and no instance is pending, ready or running,
\* whether or not instances fail.
C11_Termination ==
    /\ <>(pc = "done")
    /\ [](pc = "done" =>
            /\ \A b \in Branches : BranchStatus(b) \in {"completed", "failed"}
            /\ \A i \in exec_nodes : status[i] \notin {"pending", "running"}
            /\ Ready(status) = {})

\* A run of two branches has returned after a failure: one branch failed,
\* the other completed.
C11_Witness ==
    /\ pc = "done"
    /\ \E b \in Branches : BranchStatus(b) = "failed"
    /\ \E b \in Branches : BranchStatus(b) = "completed"

\* The columns of a table whose header contains at least one selector, each
\* once, in the table's order.
MatchingColumns(keys, selectors) ==
    LET Matched(k) == \E n \in DOMAIN selectors : Occurs(selectors[n], k)
    IN  SelectSeq(keys, Matched)

\* C13: create_nuisance_regressors writes, for every confound file, exactly
\* the columns whose header contains at least one selector as a substring,
\* each once and in the table's column order, however many selectors match
\* the same header.
C13_SelectsEachColumnOnce ==
    pc = "nuisance_done" =>
        \A i \in DOMAIN confounds :
            regressor_files[i].columns = MatchingColumns(confounds[i], nuisance_regressors)

\* The notebook has not got further than the assembly.
BeforeExpansion == pc \in {"modelspec", "connect", "outliers", "normalize", "per_run", "run"}

\* C12: whenever subject_list, filters_temporal or filters_spatial is empty,
\* the run fails with ConfigError before any node executes; it neither fails
\* otherwise nor yields an expanded workflow with zero branches.
C12_EmptyAxisConfigError ==
    EmptyAxis =>
        /\ BeforeExpansion \/ pc = "ConfigError"
        /\ exec_nodes = {}

\* The onsets of condition c in the event table of run r, each minus the
\* offset stored for run r.
ShiftedOnsets(r, c) ==
    LET rows == Group(event_files[r].rows, c)
    IN  [q \in DOMAIN rows |-> rows[q].onset - nss_files[r].offset]

\* C14: every onset handed to the model specification is the raw onset of
\* the run's event table minus the offset of the same run, and subjectinfo
\* fails when a run with events has no offset file.
C14_OnsetsShiftedByOwnOffset ==
    pc = "subjectinfo_done" =>
        \A i \in DOMAIN subject_info :
            LET r == SortedGlob(event_files)[i]
                b == subject_info[i]
            IN  /\ nss_files[r].present
                /\ \A g \in DOMAIN b.conditions :
                       b.onsets[g] = ShiftedOnsets(r, b.conditions[g])

\* The sources that bind input slot `slot` of node n: edges, a literal
\* setting, an iterable axis.
SlotSources(n, slot) ==
    { <<"edge", e[1], e[2]>> : e \in { x \in workflow : x[3] = n /\ x[4] = slot } }
    \cup { <<"literal", n, "">> : x \in LiteralInputs \cap {<<n, slot>>} }
    \cup { <<"iterable", n, "">> : x \in IterableInputs \cap {<<n, slot>>} }

BoundSlots ==
    { <<e[3], e[4]>> : e \in workflow } \cup LiteralInputs \cup IterableInputs

\* C15: under every flag combination every edge joins a declared output
\* slot of its producer to an input slot of its consumer, and every input
\* slot is bound by at most one source (edge, literal setting or iterable).
C15_SlotsDeclaredAndSingleBound ==
    /\ \A e \in workflow :
          /\ e[2] \in OutputSlots(e[1])
          /\ e[3] = "datasink" \/ (Len(e[4]) = 1 /\ e[4][1] \in InputSlots(e[3]))
    /\ \A b \in BoundSlots : Cardinality(SlotSources(b[1], b[2])) <= 1

C15_Witness ==
    /\ Assembled /\ use_outliers /\ normlaize /\ con_per_run
    /\ OutlierEdges \cup NormalizeEdges \cup PerRunEdges \subseteq workflow
    /\ \E b \in BoundSlots : SlotSources(b[1], b[2]) = {<<"edge", "selectfiles", "outliers">>}
    /\ \E b \in BoundSlots : SlotSources(b[1], b[2]) = {<<"literal", "modelspec", "">>}

\* No node of E is downstream of itself.
Acyclic(E) == \A n \in NodesOf(E) : n \notin Descendants(E, n)

\* The nodes of N left after removing, again and again, every node none of
\* whose producers is left: empty exactly when N can be put in a
\* topological execution order.
RECURSIVE Unordered(_, _)
Unordered(E, N) ==
    LET first == { n \in N : Preds(E, n) \cap N = {} }
    IN  IF first = {} THEN N ELSE Unordered(E, N \ first)

\* C16: under every flag combination the workflow assembled by the connect
\* calls is acyclic (no connect call is refused for a cycle) and has a
\* topological execution order.
C16_Acyclic ==
    /\ Acyclic(workflow)
    /\ Unordered(workflow, NodesOf(workflow)) = {}

C16_Witness ==
    /\ Assembled /\ use_outliers /\ normlaize /\ con_per_run
    /\ OutlierEdges \cup NormalizeEdges \cup PerRunEdges \subseteq workflow
    /\ "datasink" \in Descendants(workflow, "infosource")
    /\ Acyclic(workflow)

\* Two iterfields of the instance are bound to sequences of different length.
LengthMismatch ==
    \E f, g \in DOMAIN iterfield : Len(map_inputs[f]) # Len(map_inputs[g])

\* C17: a MapNode instance whose iterfields are bound to sequences of
\* different lengths fails with LengthMismatchError before any element
\* invocation runs, and produces no element output.
C17_LengthMismatch ==
    LengthMismatch =>
        /\ pc \in {"mapnode", "LengthMismatchError"}
        /\ map_outputs = <<>>

C17_Witness ==
    /\ pc = "LengthMismatchError"
    /\ Len(map_inputs[1]) = 3 /\ Len(map_inputs[2]) = 4
    /\ map_outputs = <<>>

\* The five digits of n < 100000, most significant first.
FiveDigits(n) ==
    <<n \div 10000, (n \div 1000) % 10, (n \div 100) % 10, (n \div 10) % 10, n % 10>>

\* C18: the k-th entry (counted from 1, in list order) of the per-run
\* contrast list is named 'cont_' followed by k padded to five digits, so
\* the names are pairwise distinct and consecutive from 1, whatever the
\* number of conditions and of runs.
C18_ConsecutiveNames ==
    pc \in {"write_labels", "labels_written"} =>
        \A k \in DOMAIN run_contrasts :
            run_contrasts[k][1] = <<"cont_", FiveDigits(k)>>

\* C19: in every branch the high-pass filter cutoff given to modelspec is
\* the second element of the branch's own temporal filter, for every
\* filters_temporal with one or more entries.
C19_CutoffOfOwnFilter ==
    Expanded =>
        \A i \in exec_nodes :
            i[1] = "modelspec" => high_pass_filter_cutoff = filters_temporal[i[3]][2]

\* The run ids found at position k of the run-wise inputs of modelspec: of
\* the functional run, of the events and of the offset behind the
\* subject_info entry, of the confound file and, with use_outliers, of the
\* outlier file.
RunIdsAt(k) ==
    LET At(files) == IF k \in DOMAIN files THEN {files[k][2]} ELSE {}
        Of(runs) == IF k \in DOMAIN runs THEN {runs[k]} ELSE {}
    IN  At(modelspec_inputs.functional_runs)
        \cup At(modelspec_inputs.realignment_parameters)
        \cup At(modelspec_inputs.outlier_files)
        \cup (IF k \in DOMAIN modelspec_inputs.subject_info
              THEN Of(SortedGlob(event_files)) \cup Of(SortedGlob(nss_files))
              ELSE {})

\* C20: at every position k the functional run, the subject_info entry
\* (events and offset), the confound regressors and, with use_outliers, the
\* outlier file that modelspec receives belong to one and the same run,
\* whatever files are on disk.
C20_SameRunAtEveryPosition ==
    pc = "modelspec_inputs" =>
        \A k \in FileRuns : Cardinality(RunIdsAt(k)) <= 1

\* The positions of vector v that hold 1, provided every other holds 0.
Ones(v) == { q \in DOMAIN v : v[q] = 1 }

IsSelector(v, n) == Len(v) = n /\ Cardinality(Ones(v)) = 1 /\ \A q \in DOMAIN v : v[q] \in {0, 1}

\* C21: every entry of the per-run contrast list has a condition weight
\* vector and a run selector vector with exactly one 1 each, every
\* (condition, run) pair is selected by exactly one entry, the entries are in
\* run-major order and the k-th label is the condition the k-th entry selects.
C21_PerRunStructure ==
    pc \in {"write_labels", "labels_written"} =>
        LET C == Len(condition_names)
            R == Len(stimuli_order)
        IN  /\ \A k \in DOMAIN run_contrasts :
                  /\ IsSelector(run_contrasts[k][4], C)
                  /\ IsSelector(run_contrasts[k][5], R)
                  /\ Ones(run_contrasts[k][5]) = {((k - 1) \div C) + 1}
                  /\ Ones(run_contrasts[k][4]) = {((k - 1) % C) + 1}
                  /\ k \in DOMAIN condition_labels
                  /\ \A c \in Ones(run_contrasts[k][4]) : condition_labels[k] = condition_names[c]
            /\ \A c \in 1..C, r \in 1..R :
                  Cardinality({ k \in DOMAIN run_contrasts :
                                  c \in Ones(run_contrasts[k][4])
                                  /\ r \in Ones(run_contrasts[k][5]) }) = 1
            /\ Len(condition_labels) = Len(run_contrasts)

\* Path p has a directory component '_normfunc<k>/' or '_normfunc_run<k>/'.
HasElementDir(p) ==
    \E q \in 1..(Len(p) - 1) : p[q] = "_" /\ p[q + 1] = "normfunc"

\* C22: the substitution table has the rule that removes '_normfunc<k>/'
\* respectively '_normfunc_run<k>/' for every element index k the two
\* MapNodes can produce, so no persisted path contains such a component,
\* for any number of contrasts, conditions and runs.
C22_NoElementDir ==
    pc = "persisted" => \A x \in persisted : ~HasElementDir(x[2])

\* The resolved list and the plot names follow the declarations `declared`,
\* entry by entry.
Follows(declared) ==
    /\ Len(contrast_list) = Len(declared)
    /\ \A i \in DOMAIN declared :
          /\ IsEntryFor(contrast_list[i], declared[i])
          /\ contrast_names[i] = declared[i].name

\* C23 (as claimed): the resolved list has exactly one entry per declared
\* contrast, in declaration order, so the i-th resolved contrast and the
\* i-th plot name belong to the i-th declared contrast, for every mix of
\* types and every value of the type field.
C23_DeclarationOrder == pc = "contrasts_done" => Follows(con_specs)

\* The declared contrasts of a type, in declaration order.
DeclaredOfType(type) ==
    LET Is(c) == c.type = type IN SelectSeq(con_specs, Is)

\* C23 (amended): the resolved list has exactly one entry per declared
\* contrast of type T or F and none for any other type; the F contrasts come
\* first, in declaration order, then the T contrasts, in declaration order;
\* the i-th plot name is the name of the i-th resolved contrast.
C23_FThenTOrder ==
    pc = "contrasts_done" => Follows(DeclaredOfType("F") \o DeclaredOfType("T"))

\* A T contrast declared before an F contrast has been resolved behind it.
C23_Witness ==
    /\ pc = "contrasts_done"
    /\ Len(con_specs) = 2 /\ con_specs[1].type = "T" /\ con_specs[2].type = "F"
    /\ contrast_names = <<con_specs[2].name, con_specs[1].name>>

\* The conditions named in an event table.
TableConditions(rows) == { rows[q].condition : q \in DOMAIN rows }

\* The number of events of condition c in an event table.
EventCount(rows, c) == Cardinality({ q \in DOMAIN rows : rows[q].condition = c })

\* C24: for every run the model conditions never include 'empty', include
\* every other condition of the run's event table exactly once and carry,
\* for each condition, an onset list and a duration list of equal length;
\* stimuli_order lists every event of the table in file order, 'empty'
\* events included.
C24_ConditionsWithoutEmpty ==
    pc = "subjectinfo_done" =>
        /\ Len(subject_info) = Len(SortedGlob(event_files))
        /\ Len(stimuli_order) = Len(SortedGlob(event_files))
        /\ \A i \in DOMAIN subject_info :
              LET rows == event_files[SortedGlob(event_files)[i]].rows
                  b == subject_info[i]
              IN  /\ \A g \in DOMAIN b.conditions :
                        /\ b.conditions[g] # "empty"
                        /\ b.conditions[g] \in TableConditions(rows)
                  /\ \A c \in TableConditions(rows) \ {"empty"} :
                        Cardinality({ g \in DOMAIN b.conditions : b.conditions[g] = c }) = 1
                  /\ DOMAIN b.onsets = DOMAIN b.conditions
                  /\ DOMAIN b.durations = DOMAIN b.conditions
                  /\ \A g \in DOMAIN b.conditions :
                        /\ Len(b.onsets[g]) = Len(b.durations[g])
                        /\ Len(b.onsets[g]) = EventCount(rows, b.conditions[g])
                  /\ Len(stimuli_order[i]) = Len(rows)
                  /\ \A q \in DOMAIN rows : stimuli_order[i][q] = rows[q].condition

\* A run whose table has 'empty' trials: they are in stimuli_order and not
\* among the model conditions.
C24_Witness ==
    /\ pc = "subjectinfo_done"
    /\ \E i \in DOMAIN subject_info :
          /\ \E q \in DOMAIN stimuli_order[i] : stimuli_order[i][q] = "empty"
          /\ subject_info[i].conditions = <<"face", "house">>

=============================================================================
